---- MODULE Spec2Model ----
(***************************************************************************)
(* A model of erply_api.py: the Erply client (dynamic action dispatch,     *)
(* lazy session, error classification and retry), the paged response, the  *)
(* bulk request builder and the bulk response.                             *)
(*                                                                         *)
(* An action name is a sequence of tokens: 'getProducts_bulk' is           *)
(* <<"getProducts", "_bulk">>, 'getProductStockCSV' is                     *)
(* <<"getProductStock", "CSV">>.  StrLen gives the length in characters.   *)
(* One step of the model is everything a caller does between two HTTP      *)
(* exchanges: the server's answer to the pending POST is the input.        *)
(***************************************************************************)
EXTENDS Integers, Sequences, FiniteSets, TLC

\* ------------------------------------------------------------- bounds
\* POSTs one caller sends before the model stops.
MaxSends == 3
\* Operations one caller starts (attaching and reading a held result apart).
MaxOps == 3
\* Largest small recordsTotal the server reports.
MaxTotal == 2
\* Largest page index a caller asks for.
MaxKey == 2
\* Most calls attached to the bulk builder.
MaxCalls == 2
\* Handler invocations the interpreter lets nest (a retry and the
\* authentication are calls made from inside the handler): the recursion
\* limit of the interpreter, counted in handlers.
RecursionLimit == 5

\* ------------------------------------------------------------- names
BULK == "_bulk"

ERPLY_GET ==
  { <<"getAddresses">>, <<"getAddressTypes">>, <<"getBrands">>,
    <<"getCustomers">>, <<"getCustomerGroups">>, <<"getEmployees">>,
    <<"getPayments">>, <<"getProducts">>, <<"getProductCategories">>,
    <<"getProductCostForSpecificAmount">>, <<"getProductGroups">>,
    <<"getProductPrices">>, <<"getProductPriorityGroups">>,
    <<"getProductStock">>, <<"getProductUnits">>, <<"getPurchaseDocuments">>,
    <<"getReports">>, <<"getSalesDocuments">>, <<"getServices">>,
    <<"getWarehouses">>, <<"verifyUser">> }

ERPLY_CSV == { <<"getProductStock", "CSV">>, <<"getSalesReport">> }

ERPLY_POST ==
  { <<"saveAddress">>, <<"saveBrand">>, <<"saveCustomer">>,
    <<"saveCustomerGroup">>, <<"saveInventoryRegistration">>,
    <<"saveInventoryTransfer">>, <<"saveInventoryWriteOff">>,
    <<"saveMatrixDimension">>, <<"saveObject">>, <<"savePayment">>,
    <<"saveProduct">>, <<"saveProductCategory">>, <<"saveProductGroup">>,
    <<"saveProductPicture">>, <<"savePurchaseDocument">>,
    <<"saveSalesDocument">>, <<"saveStocktaking">>,
    <<"saveStocktakingReadings">>, <<"saveWarehouse">> }

VerifyUser == <<"verifyUser">>

\* Characters of one token of the names the callers use.
TokLen(t) ==
  CASE t = "_bulk" -> 5
    [] t = "CSV" -> 3
    [] t = "getProducts" -> 11
    [] t = "getProductStock" -> 15
    [] t = "getSalesReport" -> 14
    [] t = "getDocuments" -> 12
    [] t = "saveProduct" -> 11
    [] t = "verifyUser" -> 10

RECURSIVE StrLen(_)
StrLen(name) ==
  IF name = <<>> THEN 0 ELSE TokLen(Head(name)) + StrLen(Tail(name))

EndsWithBulk(name) == Len(name) > 0 /\ name[Len(name)] = BULK

\* attr[:-5]
StripBulk(name) == SubSeq(name, 1, Len(name) - 1)

\* request.replace('CSV', '')
ReplaceCSV(name) == SelectSeq(name, LAMBDA t : t # "CSV")

\* The names callers invoke: known read, write and CSV actions, an action
\* missing from the catalogs, the empty name, each also with the bulk
\* suffix (the bare suffix is the empty name with it), one with two.
BaseNames ==
  { <<"getProducts">>, <<"saveProduct">>, <<"getProductStock", "CSV">>,
    <<"getDocuments">>, <<>> }

Names ==
  BaseNames \cup { b \o <<BULK>> : b \in BaseNames }
            \cup { <<"getProducts", BULK, BULK>> }

Catalog == ERPLY_GET \cup ERPLY_POST \cup ERPLY_CSV

\* What __getattr__ tests before anything else.
IsBulkName(attr) == StrLen(attr) > 5 /\ EndsWithBulk(attr)

\* As Stripped, but taking every trailing suffix off.
RECURSIVE Stripped_every_suffix(_)
Stripped_every_suffix(attr) ==
  IF IsBulkName(attr) THEN Stripped_every_suffix(StripBulk(attr)) ELSE attr

\* attr as __getattr__ looks it up in the catalogs.
Stripped(attr) == IF IsBulkName(attr) THEN StripBulk(attr) ELSE attr


\* ------------------------------------------------------------- values
None == "None"
\* A payload without the sessionKey field.
Absent == "absent"
\* The tokens the server hands out.
Tokens == {"t1", "t2"}
\* Python truth of a session key: None and '' are false.
Truthy(t) == t \notin {None, ""}

Callers == {1, 2}

\* per_page when recordsOnPage is not among the arguments.
DefaultPerPage == 20

\* Keyword arguments: recordsOnPage and requestID (0: not given), and
\* whether the credentials' username and password are among them.
\* xpage and xresponse: a _page (-1: none) and a _response that a retry
\* handed to a handler that does not take them out of its arguments.
NoKw ==
  [recordsOnPage |-> 0, requestID |-> 0, auth |-> FALSE, xpage |-> -1,
   xresponse |-> FALSE]
\* ErplyAuth.data
AuthData == [NoKw EXCEPT !.auth = TRUE]

\* Keys of ErplyResponse.records: a page number or, when a name was passed
\* as the page, that name.
IntKey(k) == [int |-> k, name |-> <<>>]
NameKey(n) == [int |-> -1, name |-> n]

\* One record of a response; sessionKey is None unless verifyUser answered.
Rec(i, key) == [id |-> i, sessionKey |-> key]

\* datetime.fromtimestamp, in a zone without offset.
FromTimestamp(t) ==
  [day |-> t \div 86400, hour |-> (t \div 3600) % 24,
   minute |-> (t \div 60) % 60, second |-> t % 60]
NoTime == [day |-> -1, hour |-> -1, minute |-> -1, second |-> -1]

\* A request payload.  requests holds the fragments of a bulk submission.
NoData ==
  [request |-> <<>>, requestName |-> <<>>, sessionKey |-> Absent,
   clientCode |-> FALSE, pageNo |-> 0, responseType |-> "", kw |-> NoKw,
   requests |-> <<>>]

\* An ErplyResponse.
NoResult ==
  [live |-> FALSE, request |-> <<>>, page |-> IntKey(0), per_page |-> 0,
   kwargs |-> NoKw, total |-> 0, records |-> <<>>]

\* What an operation gave back to its caller.
NoOutcome ==
  [kind |-> "none", exc |-> "", server_time |-> NoTime, recs |-> <<>>,
   frag |-> NoData, result |-> NoResult, stream |-> <<>>, notices |-> <<>>]
Exc(e) == [NoOutcome EXCEPT !.kind = "exc", !.exc = e]
LimitExc(t) == [Exc("ErplyAPILimitException") EXCEPT !.server_time = t]
Fragment(d) == [NoOutcome EXCEPT !.kind = "fragment", !.frag = d]
ResultOf(r) == [NoOutcome EXCEPT !.kind = "result", !.result = r]
CsvOf(recs, t) ==
  [NoOutcome EXCEPT !.kind = "csv", !.recs = recs, !.server_time = t]
RecordOf(r) == [NoOutcome EXCEPT !.kind = "record", !.recs = <<r>>]
PageOf(recs) == [NoOutcome EXCEPT !.kind = "page", !.recs = recs]
StreamOf(payloads, notices) ==
  [NoOutcome EXCEPT !.kind = "stream", !.stream = payloads,
                    !.notices = notices]

\* An ErplyBulkResponse; requests is its _requests, hasRequests whether the
\* response had the field.
NoBulk == [live |-> FALSE, error |-> 0, hasRequests |-> FALSE, requests |-> <<>>]
BulkOf(b) == [NoOutcome EXCEPT !.kind = "bulk"]

\* ------------------------------------------------------------- state
VARIABLES
  callers,            \* the callers that share the client
  session_key,        \* Erply._session_key
  wait_on_limit,      \* Erply.wait_on_limit
  error_retry_delay,  \* Erply.error_retry_delay
  dict,               \* the actions cached in Erply.__dict__: name -> _is_bulk
  stack,              \* per caller: the handlers waiting on an HTTP exchange
  outcome,            \* per caller: what the last operation gave back
  res,                \* per caller: the ErplyResponse the caller holds
  calls,              \* ErplyBulkRequest.calls
  bulkres,            \* the ErplyBulkResponse of the last submission
  sent,               \* per caller: the POSTs of the current operation
  invoked,            \* per caller: the handler invocations of the operation
  slept,              \* per caller: the sleeps of the current operation
  answers,            \* per caller: the answers given to the operation
  ops,                \* per caller: operations started
  cur,                \* per caller: the operation in progress, or the last
  posts               \* per caller: POSTs sent, over all operations

vars ==
  <<callers, session_key, wait_on_limit, error_retry_delay, dict, stack,
    outcome, res, calls, bulkres, sent, invoked, slept, answers, ops, cur, posts>>


\* ------------------------------------------------------------- client
\* What one caller's code reads and writes while it runs.  depth is the
\* number of handler invocations that are on the call stack.
Local(c) ==
  [session_key |-> session_key, dict |-> dict, stack |-> stack[c],
   outcome |-> outcome[c], res |-> res[c], sent |-> sent[c],
   invoked |-> invoked[c], slept |-> slept[c], answers |-> answers[c],
   bulkres |-> bulkres, posts |-> posts[c], depth |-> 1]

Store(c, L) ==
  /\ session_key' = L.session_key
  /\ dict' = L.dict
  /\ stack' = [stack EXCEPT ![c] = L.stack]
  /\ outcome' = [outcome EXCEPT ![c] = L.outcome]
  /\ res' = [res EXCEPT ![c] = L.res]
  /\ sent' = [sent EXCEPT ![c] = L.sent]
  /\ invoked' = [invoked EXCEPT ![c] = L.invoked]
  /\ slept' = [slept EXCEPT ![c] = L.slept]
  /\ answers' = [answers EXCEPT ![c] = L.answers]
  /\ bulkres' = L.bulkres
  /\ posts' = [posts EXCEPT ![c] = L.posts]

\* The caller's step, as far as the model follows one caller.
Commit(c, L) == Store(c, L) /\ L.posts <= MaxSends

\* An exception nobody catches ends the operation.
Raise(L, o) == [L EXCEPT !.stack = <<>>, !.outcome = o]

OpOf(attr) ==
  IF attr \in ERPLY_GET THEN "get"
  ELSE IF attr \in ERPLY_POST THEN "post" ELSE "csv"

\* Erply.__getattr__: the closure it returns is (attr, _is_bulk), and it is
\* stored in __dict__ under attr, the name without the suffix.
GetAttr(d, name) ==
  LET attr == Stripped(name)
      _is_bulk == IsBulkName(name)
  IN  IF attr \in ERPLY_GET \/ attr \in ERPLY_POST \/ attr \in ERPLY_CSV
      THEN [ok |-> TRUE, attr |-> attr, bulk |-> _is_bulk,
            dict |-> (attr :> _is_bulk) @@ d]
      ELSE [ok |-> FALSE, attr |-> attr, bulk |-> FALSE, dict |-> d]

\* getattr(self, name): the instance's __dict__ first, __getattr__ if the
\* name is not there.
Lookup(d, name) ==
  IF name \in DOMAIN d
  THEN [ok |-> TRUE, attr |-> name, bulk |-> d[name], dict |-> d]
  ELSE GetAttr(d, name)

\* A handler about to exchange one request.
Frame(op, request, args, kw, page, response, ctx, key) ==
  [op |-> op, request |-> request, args |-> args, kwargs |-> kw,
   page |-> page, response |-> response, pc |-> "session", attempt |-> 1,
   data |-> NoData, ctx |-> ctx, key |-> key, depth |-> 1]

\* requests.post(self.api_url, data=data, ...): the request leaves.
Post(L, F) ==
  [L EXCEPT !.stack = Append(@, [F EXCEPT !.pc = "post", !.attempt = 1]),
            !.sent = Append(@, [data |-> F.data, attempt |-> 1,
                                ctx |-> F.ctx, op |-> F.op]),
            !.posts = @ + 1]

\* ErplyResponse.fetchone
fetchone(r) ==
  IF r.total = 1
  THEN IF IntKey(0) \notin DOMAIN r.records THEN Exc("KeyError")
       ELSE IF Len(r.records[IntKey(0)]) = 0 THEN Exc("IndexError")
       ELSE RecordOf(r.records[IntKey(0)][1])
  ELSE IF r.total = 0
  THEN Exc("ErplyException: Request returned no results")
  ELSE Exc("ErplyException: Request returned more than 1 result")

\* The handler below the finished authentication goes on: payload gets the
\* session key that authenticate() returned, and the request leaves.
Resume(L, key) ==
  LET F == L.stack[Len(L.stack)]
  IN  Post([L EXCEPT !.stack = SubSeq(@, 1, Len(@) - 1)],
           [F EXCEPT !.data.sessionKey = key, !.data.clientCode = TRUE])

\* A handler returns V to whoever called it: the caller of the action, the
\* rest of authenticate(), or the rest of __getitem__ after fetch_records.
Deliver(L, ctx, key, V) ==
  CASE ctx = "call" ->
         [L EXCEPT !.stack = <<>>, !.outcome = V,
                   !.res = IF V.kind = "result" THEN V.result ELSE @]
    [] ctx = "authenticate" ->
         IF V.kind # "result" THEN Raise(L, Exc("AttributeError"))
         ELSE LET one == fetchone(V.result)
              IN  IF one.kind = "exc" THEN Raise(L, one)
                  ELSE Resume([L EXCEPT !.session_key = one.recs[1].sessionKey],
                              one.recs[1].sessionKey)
    [] ctx = "getitem" ->
         IF IntKey(key) \in DOMAIN L.res.records
         THEN [L EXCEPT !.stack = <<>>,
                        !.outcome = PageOf(L.res.records[IntKey(key)])]
         ELSE Raise(L, Exc("KeyError"))

RECURSIVE CallAttr(_, _, _, _, _, _)

\* Erply.authenticate, up to the request it sends.
authenticate(L) == CallAttr(L, VerifyUser, <<>>, AuthData, "authenticate", 0)

\* As payload, but never using the cached key.
payload_always_authenticates(L, F) ==
  authenticate([L EXCEPT !.stack = Append(@, F), !.depth = F.depth + 1])

\* Erply.payload and Erply.session: the cached key, or authenticate first.
payload(L, F) ==
  IF Truthy(L.session_key)
  THEN Post(L, [F EXCEPT !.data.sessionKey = L.session_key,
                         !.data.clientCode = TRUE])
  ELSE authenticate([L EXCEPT !.stack = Append(@, F), !.depth = F.depth + 1])

Invocation(op, request, args, kw, page, response, bulk, ctx) ==
  [op |-> op, request |-> request, args |-> args, kwargs |-> kw,
   page |-> page, response |-> response, bulk |-> bulk, ctx |-> ctx,
   why |-> "call"]

\* Erply.handle_get, up to the request it sends.
handle_get(L0, request, page, response, bulk, args, kw, ctx, key) ==
  LET L == [L0 EXCEPT !.invoked = Append(@,
              Invocation("get", request, args, kw, page, response, bulk, ctx))]
      data == [NoData EXCEPT !.kw = kw,
                             !.pageNo = IF page # 0 THEN page + 1 ELSE 0]
      F == [Frame("get", request, args, kw, page, response, ctx, key)
              EXCEPT !.data = [data EXCEPT !.request = request],
                     !.depth = L0.depth]
  IN  IF bulk
      THEN Deliver(L, ctx, key, Fragment([data EXCEPT !.requestName = request]))
      ELSE IF request # VerifyUser
      THEN payload(L, F)
      ELSE Post(L, [F EXCEPT !.data.clientCode = TRUE])

\* Erply.handle_post, up to the request it sends.
handle_post(L0, request, bulk, args, kw, ctx, key) ==
  LET L == [L0 EXCEPT !.invoked = Append(@,
              Invocation("post", request, args, kw, 0, FALSE, bulk, ctx))]
      data == [NoData EXCEPT !.kw = kw]
      F == [Frame("post", request, args, kw, 0, FALSE, ctx, key)
              EXCEPT !.data = [data EXCEPT !.request = request],
                     !.depth = L0.depth]
  IN  IF bulk
      THEN Deliver(L, ctx, key, Fragment([data EXCEPT !.requestName = request]))
      ELSE payload(L, F)

\* Erply.handle_csv, up to the request it sends.
handle_csv(L0, request, args, kw, ctx, key) ==
  LET L == [L0 EXCEPT !.invoked = Append(@,
              Invocation("csv", request, args, kw, 0, FALSE, FALSE, ctx))]
      data == [NoData EXCEPT !.request = ReplaceCSV(request),
                             !.responseType = "CSV", !.kw = kw]
      F == [Frame("csv", request, args, kw, 0, FALSE, ctx, key)
              EXCEPT !.data = data, !.depth = L0.depth]
  IN  payload(L, F)

\* The closure __getattr__ made for attr, called with (*args, **kwargs).
\* The read closure pops _page (default 0) and _response (default None);
\* the others leave them among the keyword arguments.  A call that would
\* nest deeper than the interpreter allows raises RecursionError instead.
method(L, attr, bulk, args, kw, ctx, key) ==
  IF L.depth > RecursionLimit THEN Raise(L, Exc("RecursionError"))
  ELSE
  CASE OpOf(attr) = "get" ->
         handle_get(L, attr, IF kw.xpage = -1 THEN 0 ELSE kw.xpage,
                    kw.xresponse, bulk, args,
                    [kw EXCEPT !.xpage = -1, !.xresponse = FALSE], ctx, key)
    [] OpOf(attr) = "post" -> handle_post(L, attr, bulk, args, kw, ctx, key)
    [] OpOf(attr) = "csv" -> handle_csv(L, attr, args, kw, ctx, key)

\* getattr(self, name)(*args, **kwargs)
CallAttr(L, name, args, kw, ctx, key) ==
  LET lk == Lookup(L.dict, name)
  IN  IF ~lk.ok THEN Raise(L, Exc("ErplyException: Invalid action"))
      ELSE method([L EXCEPT !.dict = lk.dict], lk.attr, lk.bulk, args, kw,
                  ctx, key)


\* ------------------------------------------------------------- server
\* requestUnixTime of an answer: 00:59:59 and 02:01:00 of the first day.
UnixTimes == {3599, 7260}

OK == 200
E_LIMIT == 1002
E_SESSION == 1054
E_PERMISSION == 1060
\* Some other error code (1011: invalid classifier id).
E_OTHER == 1011

Totals == (0 .. MaxTotal) \cup {DefaultPerPage + 1}

Answer ==
  [transport |-> TRUE, status_code |-> OK, status |-> TRUE, errorCode |-> 0,
   errorField |-> "", requestUnixTime |-> 3599, recordsTotal |-> 0,
   sessionKey |-> None, hasRequests |-> FALSE, requests |-> <<>>]

\* The answers to a read, write or CSV request: no answer at all, a failed
\* HTTP status, a body without status, an error code, or a success whose
\* records are the requested page of recordsTotal records.
Responses(F) ==
  { [Answer EXCEPT !.transport = FALSE],
    [Answer EXCEPT !.status_code = 500],
    [Answer EXCEPT !.status = FALSE],
    [Answer EXCEPT !.errorCode = E_SESSION],
    [Answer EXCEPT !.errorCode = E_PERMISSION],
    [Answer EXCEPT !.errorCode = E_OTHER],
    [Answer EXCEPT !.errorCode = E_OTHER, !.errorField = "name"] }
  \cup { [Answer EXCEPT !.errorCode = E_LIMIT, !.requestUnixTime = t] :
           t \in UnixTimes }
  \cup { [Answer EXCEPT !.recordsTotal = n, !.sessionKey = k] :
           n \in Totals,
           k \in IF F.request = VerifyUser THEN Tokens \cup {None} ELSE {None} }

Min(a, b) == IF a < b THEN a ELSE b

\* data.get('records') of a successful answer: the records of the page the
\* request asked for (the first when it names none), numbered through the
\* whole result.
ServerRecords(r, data) ==
  LET pp == IF data.kw.recordsOnPage # 0 THEN data.kw.recordsOnPage
            ELSE DefaultPerPage
      p == IF data.pageNo = 0 THEN 1 ELSE data.pageNo
      first == (p - 1) * pp + 1
      last == Min(p * pp, r.recordsTotal)
  IN  [i \in 1 .. (IF last < first THEN 0 ELSE last - first + 1) |->
         Rec(first + i - 1, r.sessionKey)]

\* One entry of a bulk answer.
Entry(n, st) ==
  [responseStatus |-> st, requestID |-> n,
   errorField |-> IF st = "error" THEN "name" ELSE "",
   records |-> <<Rec(n, None)>>]

\* The answers to a bulk submission: per call a success or an error, or a
\* body without the requests field.
BulkResponses(F) ==
  { [Answer EXCEPT !.transport = FALSE],
    [Answer EXCEPT !.status_code = 500],
    [Answer EXCEPT !.status = FALSE],
    [Answer EXCEPT !.errorCode = E_SESSION] }
  \cup { [Answer EXCEPT !.hasRequests = TRUE,
                        !.requests = [n \in 1 .. Len(F.data.requests) |->
                                        Entry(n, st[n])]] :
           st \in [1 .. Len(F.data.requests) -> {"ok", "error"}] }

\* ------------------------------------------------------------- query
\* ErplyResponse.__init__
ErplyResponse(request, page, kw, r, records) ==
  [live |-> TRUE, request |-> request, page |-> page,
   per_page |-> IF kw.recordsOnPage # 0 THEN kw.recordsOnPage
                ELSE DefaultPerPage,
   kwargs |-> kw, total |-> r.recordsTotal, records |-> (page :> records)]

\* As populate_page, but keeping the records under the 1-based page number.
populate_page_one_based(result, data, page) ==
  [result EXCEPT !.records = (IntKey(page + 1) :> data) @@ @]

\* ErplyResponse.populate_page
populate_page(result, data, page) ==
  [result EXCEPT !.records = (IntKey(page) :> data) @@ @]

\* The retry of a handler: the action is looked up by name and called
\* again, from inside the handler.  The invocation this makes is marked as
\* a retry.
Retry(L0, F) ==
  LET L == [L0 EXCEPT !.depth = F.depth + 1]
      L1 ==
        CASE F.op = "get" ->
               CallAttr(L, F.request, F.args,
                        [F.kwargs EXCEPT !.xpage = F.page,
                                         !.xresponse = F.response],
                        F.ctx, F.key)
          [] F.op = "post" ->
               CallAttr(L, F.request, <<F.request>> \o F.args, F.kwargs,
                        F.ctx, F.key)
          [] F.op = "csv" ->
               CallAttr(L, F.request, F.args, F.kwargs, F.ctx, F.key)
  IN  IF Len(L1.invoked) > Len(L.invoked)
      THEN [L1 EXCEPT !.invoked[Len(L.invoked) + 1].why = "retry"]
      ELSE L1

\* What a handler does with the parsed data of a successful query.
Success(L, F, r) ==
  LET records == ServerRecords(r, F.data)
  IN  CASE F.op = "get" ->
             Deliver(IF F.response
                     THEN [L EXCEPT !.res = populate_page(@, records, F.page)]
                     ELSE L,
                     F.ctx, F.key,
                     ResultOf(ErplyResponse(F.request, IntKey(F.page),
                                            F.kwargs, r, records)))
        [] F.op = "post" ->
             Deliver(L, F.ctx, F.key,
                     ResultOf(ErplyResponse(F.request,
                                IF F.args = <<>> THEN IntKey(0)
                                ELSE NameKey(Head(F.args)),
                                F.kwargs, r, records)))
        [] F.op = "csv" ->
             IF records = <<>> THEN Raise(L, Exc("IndexError"))
             ELSE Deliver(L, F.ctx, F.key,
                          CsvOf(records, FromTimestamp(r.requestUnixTime)))

\* As SleepTime, but counting the minutes up to minute 59.
SleepTime_to_last_minute(server_time) == (60 * (59 - server_time.minute)) + 1

\* sleep_time of a rate-limited query
SleepTime(server_time) == (60 * (60 - server_time.minute)) + 1

\* The second requests.post of a query, after the sleep if a delay is set.
post_again(L, F) ==
  [L EXCEPT
     !.slept = IF error_retry_delay # 0
               THEN Append(@, [why |-> "error", secs |-> error_retry_delay])
               ELSE @,
     !.stack = Append(@, [F EXCEPT !.attempt = 2]),
     !.sent = Append(@, [data |-> F.data, attempt |-> 2,
                         ctx |-> F.ctx, op |-> F.op]),
     !.posts = @ + 1]

\* As on_request_exception, but with the second post inside a loop.
on_request_exception_again(L, F) == post_again(L, F)

\* As on_request_exception, but posting again only when a delay is set.
on_request_exception_if_delay(L, F) ==
  IF F.attempt = 1 /\ error_retry_delay # 0 THEN post_again(L, F)
  ELSE Raise(L, Exc("RequestException"))

\* requests.post raised RequestException: after the first attempt sleep, if
\* a delay is set, and post again outside the try; the second attempt's
\* exception is not caught.
on_request_exception(L, F) ==
  IF F.attempt = 1 THEN post_again(L, F)
  ELSE Raise(L, Exc("RequestException"))

\* As on_limit, but raising whatever wait_on_limit says.
on_limit_never_waits(L, F, r) ==
  Raise(L, LimitExc(FromTimestamp(r.requestUnixTime)))

\* As on_limit, but dropping the cached session key as a 1054 does.
on_limit_forgets_session(L, F, r) ==
  LET server_time == FromTimestamp(r.requestUnixTime)
      L1 == [L EXCEPT !.session_key = None]
  IN  IF ~wait_on_limit THEN Raise(L1, LimitExc(server_time))
      ELSE Retry([L1 EXCEPT !.slept = Append(@,
                    [why |-> "limit", secs |-> SleepTime(server_time)])], F)

\* error == 1002
on_limit(L, F, r) ==
  LET server_time == FromTimestamp(r.requestUnixTime)
  IN  IF ~wait_on_limit THEN Raise(L, LimitExc(server_time))
      ELSE Retry([L EXCEPT !.slept = Append(@,
                    [why |-> "limit", secs |-> SleepTime(server_time)])], F)

\* As on_session_expired, but clearing the cached key only if it is still
\* the one the answered request carried.
on_session_expired_if_current(L, F) ==
  Retry([L EXCEPT !.session_key =
                    IF @ = F.data.sessionKey THEN None ELSE @], F)

\* error == 1054
on_session_expired(L, F) == Retry([L EXCEPT !.session_key = None], F)

\* What the answer r is to _erply_query: -1 no answer, -2 a failed HTTP
\* status, -3 no status, else status.errorCode.
CodeOf(r) ==
  IF ~r.transport THEN -1
  ELSE IF r.status_code # OK THEN -2
  ELSE IF ~r.status THEN -3 ELSE r.errorCode

\* Erply._erply_query from the answer r to its POST on, and then the handler
\* that called it.  L0 is the caller's state with the handler's frame F taken
\* off the stack.
erply_query(L0, F, r) ==
  LET recs == ServerRecords(r, F.data)
      L == [L0 EXCEPT !.answers = Append(@,
              [code |-> CodeOf(r), ctx |-> F.ctx, attempt |-> F.attempt,
               time |-> r.requestUnixTime, total |-> r.recordsTotal,
               key |-> IF recs = <<>> THEN None ELSE recs[1].sessionKey,
               data |-> F.data])]
  IN
  IF ~r.transport THEN on_request_exception(L, F)
  ELSE IF r.status_code # OK
  THEN Raise(L, Exc("ErplyException: Request failed"))
  ELSE IF ~r.status
  THEN Raise(L, Exc("ErplyException: Malformed response"))
  ELSE IF r.errorCode = 0 THEN Success(L, F, r)
  ELSE IF r.errorCode = E_LIMIT THEN on_limit(L, F, r)
  ELSE IF r.errorCode = E_SESSION THEN on_session_expired(L, F)
  ELSE IF r.errorCode = E_PERMISSION
  THEN Raise(L, Exc("ErplyPermissionException"))
  ELSE IF r.errorField # ""
  THEN Raise(L, Exc("ErplyException: Erply error, field"))
  ELSE Raise(L, Exc("ErplyException: Erply error"))

\* ErplyBulkResponse.__init__ on the answer to handle_bulk's POST, which
\* nothing retries.
ErplyBulkResponse(L, r) ==
  IF ~r.transport THEN Raise(L, Exc("RequestException"))
  ELSE IF r.status_code # OK THEN Raise(L, Exc("ValueError"))
  ELSE IF ~r.status THEN Raise(L, Exc("ValueError"))
  ELSE LET b == [live |-> TRUE, error |-> r.errorCode,
                 hasRequests |-> r.hasRequests, requests |-> r.requests]
       IN  [L EXCEPT !.stack = <<>>, !.outcome = BulkOf(b), !.bulkres = b]


\* ------------------------------------------------------------- bulk
\* As attach, but keeping a call of any action of the catalogs.
attach_any_action(L, cs, attr, args, kw) ==
  IF attr \in Catalog
  THEN LET lk == Lookup(L.dict, attr \o <<BULK>>)
       IN  [L |-> [L EXCEPT !.dict = lk.dict],
            calls |-> Append(cs, [call |-> [attr |-> lk.attr, bulk |-> lk.bulk],
                                  args |-> args, kwargs |-> kw,
                                  name |-> attr])]
  ELSE [L |-> L, calls |-> cs]

\* ErplyBulkRequest.attach: the closure of the bulk variant is looked up
\* now (which stores it in the client's __dict__), the call is kept.  name
\* remembers the name attach was given.
attach(L, cs, attr, args, kw) ==
  IF attr \in ERPLY_GET \/ attr \in ERPLY_POST
  THEN LET lk == Lookup(L.dict, attr \o <<BULK>>)
       IN  [L |-> [L EXCEPT !.dict = lk.dict],
            calls |-> Append(cs, [call |-> [attr |-> lk.attr, bulk |-> lk.bulk],
                                  args |-> args, kwargs |-> kw,
                                  name |-> attr])]
  ELSE [L |-> L, calls |-> cs]

\* As enumerate, but counting from 0.
enumerate_from_zero(i) == i - 1

\* The number enumerate(self.calls, start=1) gives the i-th call.
enumerate(i) == i

\* The loop of ErplyBulkRequest.__call__ from call number n on: requestID is
\* written into the kept keyword arguments and the closure is called.
RECURSIVE Realize(_, _, _, _)
Realize(L, cs, n, _requests) ==
  IF n > Len(cs) THEN [L |-> L, calls |-> cs, requests |-> _requests]
  ELSE LET _kwargs == [cs[n].kwargs EXCEPT !.requestID = enumerate(n)]
           L1 == method(L, cs[n].call.attr, cs[n].call.bulk, cs[n].args,
                        _kwargs, "call", 0)
       IN  Realize(L1, [cs EXCEPT ![n].kwargs = _kwargs], n + 1,
                   Append(_requests, L1.outcome.frag))

\* As handle_bulk, but with the envelope of _payload: the account code and
\* no session.
handle_bulk_without_session(L, _requests) ==
  Post([L EXCEPT !.outcome = NoOutcome],
       [Frame("bulk", <<>>, <<>>, NoKw, 0, FALSE, "call", 0)
          EXCEPT !.data.requests = _requests, !.data.clientCode = TRUE])

\* Erply.handle_bulk, up to the request it sends.
handle_bulk(L, _requests) ==
  payload([L EXCEPT !.outcome = NoOutcome],
          [Frame("bulk", <<>>, <<>>, NoKw, 0, FALSE, "call", 0)
             EXCEPT !.data.requests = _requests])

\* As records, but ending at the first failed entry.
records_until_error(els, n, payloads, notices) ==
  LET failed == {i \in DOMAIN els : els[i].responseStatus = "error"}
      stop == IF failed = {} THEN Len(els) + 1
              ELSE CHOOSE i \in failed : \A j \in failed : i <= j
  IN  StreamOf([i \in 1 .. stop - 1 |-> els[i].records], <<>>)

\* ErplyBulkResponse.records, run to its end.
RECURSIVE records(_, _, _, _)
records(els, n, payloads, notices) ==
  IF n > Len(els) THEN StreamOf(payloads, notices)
  ELSE IF els[n].responseStatus = "error"
  THEN records(els, n + 1, payloads,
               Append(notices, [requestID |-> els[n].requestID,
                                errorField |-> els[n].errorField]))
  ELSE records(els, n + 1, Append(payloads, els[n].records), notices)

\* ------------------------------------------------------------- paging
\* ErplyResponse.__getitem__, up to the request fetch_records sends.
getitem(L, key) ==
  LET self == L.res
  IN  IF self.per_page * key >= self.total THEN Raise(L, Exc("IndexError"))
      ELSE IF IntKey(key) \notin DOMAIN self.records
      THEN handle_get(L, self.request, key, TRUE, FALSE, <<>>, self.kwargs,
                      "getitem", key)
      ELSE [L EXCEPT !.outcome = PageOf(self.records[IntKey(key)])]

\* ------------------------------------------------------------- actions
Idle(c) == c \in callers /\ stack[c] = <<>>

\* The caller's state at the start of an operation.
Fresh(c) ==
  [Local(c) EXCEPT !.outcome = NoOutcome, !.sent = <<>>, !.invoked = <<>>,
                   !.slept = <<>>, !.answers = <<>>]

\* The operation a caller starts, with what it finds: the session key, the
\* held result's pages and the builder's calls.  requests is the list of
\* fragments a submission made.
Op(c, op, name, kw, key) ==
  [op |-> op, name |-> name, kw |-> kw, key |-> key,
   session_key |-> session_key, res |-> res[c], calls |-> calls,
   requests |-> <<>>]
NoOp == [op |-> "none", name |-> <<>>, kw |-> NoKw, key |-> 0,
         session_key |-> None, res |-> NoResult, calls |-> <<>>,
         requests |-> <<>>]
Starts(c, op, name, kw, key) ==
  cur' = [cur EXCEPT ![c] = Op(c, op, name, kw, key)]

Config == <<callers, wait_on_limit, error_retry_delay>>

\* The keyword arguments callers pass.
CallKws == { [NoKw EXCEPT !.recordsOnPage = n] : n \in {0, 1} }

\* erply.<name>(**kw)
Invoke(c, name, kw) ==
  /\ Idle(c)
  /\ ops[c] < MaxOps
  /\ Commit(c, CallAttr(Fresh(c), name, <<>>, kw, "call", 0))
  /\ Starts(c, "invoke", name, kw, 0)
  /\ ops' = [ops EXCEPT ![c] = @ + 1]
  /\ UNCHANGED <<Config, calls>>

\* The server answers the POST the caller waits on.
Respond(c, r) ==
  /\ c \in callers
  /\ stack[c] # <<>>
  /\ LET F == stack[c][Len(stack[c])]
         L0 == [Local(c) EXCEPT !.stack = SubSeq(@, 1, Len(@) - 1)]
     IN  /\ F.pc = "post"
         /\ IF F.op = "bulk"
            THEN /\ r \in BulkResponses(F)
                 /\ Commit(c, ErplyBulkResponse(L0, r))
            ELSE /\ r \in Responses(F)
                 /\ LET L == erply_query(L0, F, r)
                    IN  Commit(c, L)
  /\ UNCHANGED <<Config, calls, ops, cur>>

\* response.fetchone()
FetchOne(c) ==
  /\ Idle(c)
  /\ res[c].live
  /\ Commit(c, [Fresh(c) EXCEPT !.outcome = fetchone(res[c])])
  /\ Starts(c, "fetchone", <<>>, NoKw, 0)
  /\ UNCHANGED <<Config, calls, ops>>

\* response[key]
GetItem(c, key) ==
  /\ Idle(c)
  /\ res[c].live
  /\ ops[c] < MaxOps
  /\ Commit(c, getitem(Fresh(c), key))
  /\ Starts(c, "getitem", <<>>, NoKw, key)
  /\ ops' = [ops EXCEPT ![c] = @ + 1]
  /\ UNCHANGED <<Config, calls>>

\* bulk.attach(name, **kw)
Attach(c, name, kw) ==
  /\ Idle(c)
  /\ Len(calls) < MaxCalls
  /\ LET a == attach(Fresh(c), calls, name, <<>>, kw)
     IN  /\ Commit(c, a.L)
         /\ calls' = a.calls
  /\ Starts(c, "attach", name, kw, 0)
  /\ UNCHANGED <<Config, ops>>

\* bulk()
Submit(c) ==
  /\ Idle(c)
  /\ ops[c] < MaxOps
  /\ LET b == Realize(Fresh(c), calls, 1, <<>>)
     IN  /\ Commit(c, handle_bulk(b.L, b.requests))
         /\ calls' = b.calls
         /\ cur' = [cur EXCEPT ![c] = [Op(c, "submit", <<>>, NoKw, 0)
                                        EXCEPT !.requests = b.requests]]
  /\ ops' = [ops EXCEPT ![c] = @ + 1]
  /\ UNCHANGED Config

\* list(bulk_response.records)
Records(c) ==
  /\ Idle(c)
  /\ bulkres.live
  /\ Commit(c, [Fresh(c) EXCEPT !.outcome =
                  IF ~bulkres.hasRequests THEN Exc("ValueError")
                  ELSE records(bulkres.requests, 1, <<>>, <<>>)])
  /\ Starts(c, "records", <<>>, NoKw, 0)
  /\ UNCHANGED <<Config, calls, ops>>

\* error_retry_delay when the constructor is not given one.
DefaultRetryDelay == 2

\* The attachable names tried: a read and a write action, the bootstrap
\* action, a CSV action, an unknown one, and one with the suffix on.
AttachNames ==
  { <<"getProducts">>, <<"saveProduct">>, VerifyUser,
    <<"getProductStock", "CSV">>, <<"getDocuments">>,
    <<"getProducts", BULK>> }

\* Erply.__init__, ErplyBulkRequest.__init__
InitWith(cs, keys) ==
  /\ callers = cs
  /\ session_key \in keys
  /\ wait_on_limit \in BOOLEAN
  /\ error_retry_delay \in {0, DefaultRetryDelay}
  /\ dict = [n \in {} |-> FALSE]
  /\ stack = [c \in Callers |-> <<>>]
  /\ outcome = [c \in Callers |-> NoOutcome]
  /\ res = [c \in Callers |-> NoResult]
  /\ calls = <<>>
  /\ bulkres = NoBulk
  /\ sent = [c \in Callers |-> <<>>]
  /\ invoked = [c \in Callers |-> <<>>]
  /\ slept = [c \in Callers |-> <<>>]
  /\ answers = [c \in Callers |-> <<>>]
  /\ ops = [c \in Callers |-> 0]
  /\ posts = [c \in Callers |-> 0]
  /\ cur = [c \in Callers |-> NoOp]

\* One caller; no session_key, an empty one, or a cached one.
Init == InitWith({1}, {None, "", "t1"})

AnyResponse ==
  Responses(NoData) \cup Responses([NoData EXCEPT !.request = VerifyUser])

Next ==
  \E c \in Callers :
    \/ \E name \in Names, kw \in CallKws : Invoke(c, name, kw)
    \/ \E r \in AnyResponse : Respond(c, r)
    \/ FetchOne(c)
    \/ \E key \in 0 .. MaxKey : GetItem(c, key)

Spec == Init /\ [][Next]_vars

\* The bulk builder and its submissions.
NextBulk ==
  \E c \in Callers :
    \/ \E name \in AttachNames, kw \in CallKws : Attach(c, name, kw)
    \/ Submit(c)
    \/ \E r \in AnyResponse
              \cup BulkResponses([data |-> [requests |-> calls]]) :
         Respond(c, r)
    \/ Records(c)

SpecBulk == Init /\ [][NextBulk]_vars

\* ------------------------------------------------------------- retries
\* One call followed through all its re-invocations, however many requests
\* it sends: the count of POSTs restarts with each call.
RetryNames == { <<"getProducts">>, <<"saveProduct">> }

\* The answers that decide whether a handler retries: success (with one
\* record, which for verifyUser holds a new session key), 1054, 1002 and,
\* as the fatal one, 1060.
RetryResponses(F) ==
  { r \in Responses(F) :
      /\ CodeOf(r) \in {0, E_SESSION, E_LIMIT, E_PERMISSION}
      /\ r.requestUnixTime = 3599
      /\ CodeOf(r) = 0 =>
           /\ r.recordsTotal = 1
           /\ r.sessionKey = IF F.request = VerifyUser THEN "t2" ELSE None }

\* erply.<name>()
Call(c, name) ==
  /\ Idle(c)
  /\ Store(c, CallAttr([Fresh(c) EXCEPT !.posts = 0], name, <<>>, NoKw,
                       "call", 0))
  /\ Starts(c, "invoke", name, NoKw, 0)
  /\ UNCHANGED <<Config, calls, ops>>

\* The server answers the POST the caller waits on.
Reply(c, r) ==
  /\ c \in callers
  /\ stack[c] # <<>>
  /\ LET F == stack[c][Len(stack[c])]
         L0 == [Local(c) EXCEPT !.stack = SubSeq(@, 1, Len(@) - 1)]
     IN  /\ F.pc = "post"
         /\ r \in RetryResponses(F)
         /\ Store(c, erply_query(L0, F, r))
  /\ UNCHANGED <<Config, calls, ops, cur>>

InitRetry == InitWith({1}, {"t1"}) /\ error_retry_delay = DefaultRetryDelay

NextRetry ==
  \E c \in Callers :
    \/ \E name \in RetryNames : Call(c, name)
    \/ \E r \in AnyResponse : Reply(c, r)

\* requests.post blocks until the server has answered: every request gets
\* its answer.
SpecRetry ==
  /\ InitRetry
  /\ [][NextRetry]_vars
  /\ \A c \in Callers : WF_vars(\E r \in AnyResponse : Reply(c, r))

\* ------------------------------------------------------------- waiting
\* requestUnixTime of a 1002 answer: every minute and second of the first
\* and of the last hour of a day.
LimitTimes ==
  { (h * 3600) + (m * 60) + sec : h \in {0, 23}, m \in 0 .. 59, sec \in 0 .. 59 }

\* The server answers the POST the caller waits on with 1002, once a call.
Limit(c, t) ==
  /\ c \in callers
  /\ stack[c] # <<>>
  /\ slept[c] = <<>>
  /\ LET F == stack[c][Len(stack[c])]
         L0 == [Local(c) EXCEPT !.stack = SubSeq(@, 1, Len(@) - 1)]
     IN  /\ F.pc = "post"
         /\ Commit(c, erply_query(L0, F,
                      [Answer EXCEPT !.errorCode = E_LIMIT,
                                     !.requestUnixTime = t]))
  /\ UNCHANGED <<Config, calls, ops, cur>>

\* A client that waits on the limit and holds a session key.
InitSleep ==
  /\ InitWith({1}, {"t1"})
  /\ wait_on_limit
  /\ error_retry_delay = DefaultRetryDelay

NextSleep ==
  \E c \in Callers :
    \/ Invoke(c, <<"getProducts">>, NoKw)
    \/ \E t \in LimitTimes : Limit(c, t)
    \/ Respond(c, [Answer EXCEPT !.recordsTotal = 1])

SpecSleep == InitSleep /\ [][NextSleep]_vars

\* ------------------------------------------------------------- sharing
\* Two callers share one client that holds a session key; their steps
\* interleave at the HTTP exchanges, where a caller's thread blocks.
SharedAnswers ==
  { [Answer EXCEPT !.errorCode = E_SESSION] }
  \cup { [Answer EXCEPT !.recordsTotal = 1, !.sessionKey = k] :
           k \in Tokens \cup {None} }

InitShared ==
  /\ InitWith(Callers, {"t1"})
  /\ ~wait_on_limit
  /\ error_retry_delay = DefaultRetryDelay

NextShared ==
  \E c \in Callers :
    \/ Invoke(c, <<"getProducts">>, NoKw)
    \/ \E r \in SharedAnswers : Respond(c, r)

SpecShared == InitShared /\ [][NextShared]_vars


\* ------------------------------------------------------------- claims
Last(q) == q[Len(q)]
Count(q, P(_)) == Cardinality({i \in DOMAIN q : P(q[i])})

\* Two invocations of a handler with the same action and arguments.
SameCall(a, b) ==
  /\ a.op = b.op /\ a.request = b.request /\ a.args = b.args
  /\ a.kwargs = b.kwargs /\ a.page = b.page /\ a.response = b.response
  /\ a.bulk = b.bulk

IsExpired(a) == a.code = E_SESSION
IsCallRetry(i) == i.ctx = "call" /\ i.why = "retry"
IsCallPost(p) == p.ctx = "call" /\ p.attempt = 1

\* C1: every 1054 answer to a read, write or CSV action clears the cached
\* session key and makes exactly one re-invocation of the same action with
\* the arguments of the original invocation; when wait_on_limit is off, a
\* call that returned has sent the action once more than it was answered
\* 1054.
C1_SessionExpiredReinvokes ==
  \A c \in callers :
    cur[c].op = "invoke" =>
      /\ (answers[c] # <<>> /\ IsExpired(Last(answers[c])))
           => session_key = None
      /\ ~wait_on_limit =>
           \A i \in DOMAIN invoked[c] :
             invoked[c][i].ctx = "call"
               => SameCall(invoked[c][i], invoked[c][1])
      /\ ~wait_on_limit =>
           Count(invoked[c], IsCallRetry)
             = Count(answers[c], LAMBDA a : a.ctx = "call" /\ IsExpired(a))
      /\ (~wait_on_limit /\ stack[c] = <<>>
            /\ outcome[c].kind \in {"result", "csv"}) =>
           Count(sent[c], IsCallPost)
             = Count(answers[c], LAMBDA a : a.ctx = "call" /\ IsExpired(a)) + 1

\* The name without one trailing bulk suffix.
WithoutSuffix(name) == IF EndsWithBulk(name) THEN StripBulk(name) ELSE name

\* C2: invoking a name that, without a trailing bulk suffix, is in none of
\* the catalogs fails with the invalid-action error, whatever the arguments
\* and the client's state; nothing is sent and the session key stays.
C2_InvalidActionFails ==
  \A c \in callers :
    (cur[c].op = "invoke" /\ WithoutSuffix(cur[c].name) \notin Catalog) =>
      /\ outcome[c] = Exc("ErplyException: Invalid action")
      /\ stack[c] = <<>>
      /\ sent[c] = <<>>
      /\ session_key = cur[c].session_key

\* An unknown name with two suffixes fails on a client that holds a session
\* key and has served an earlier call.
C2_Witness ==
  \E c \in callers :
    /\ cur[c].op = "invoke"
    /\ cur[c].name = <<"getProducts", BULK, BULK>>
    /\ cur[c].kw.recordsOnPage = 1
    /\ outcome[c].kind = "exc"
    /\ session_key = "t2"
    /\ DOMAIN dict # {}

\* C3: a 1002 answer with wait_on_limit off raises the rate-limit error
\* carrying the server time of status.requestUnixTime, without sleeping and
\* without re-invoking; with wait_on_limit on the call sleeps, re-invokes
\* the action and never raises the rate-limit error.
C3_RateLimit ==
  \A c \in callers :
    /\ wait_on_limit => outcome[c].exc # "ErplyAPILimitException"
    /\ (answers[c] # <<>> /\ Last(answers[c]).code = E_LIMIT) =>
         LET a == Last(answers[c])
             t == a.time
         IN  IF ~wait_on_limit
             THEN /\ stack[c] = <<>>
                  /\ outcome[c].kind = "exc"
                  /\ outcome[c].exc = "ErplyAPILimitException"
                  /\ outcome[c].server_time =
                       [day |-> t \div 86400, hour |-> (t \div 3600) % 24,
                        minute |-> (t \div 60) % 60, second |-> t % 60]
                  /\ \A i \in DOMAIN slept[c] : slept[c][i].why # "limit"
                  /\ Count(invoked[c], LAMBDA i : i.why = "retry")
                       = Count(answers[c], IsExpired)
             ELSE /\ slept[c] # <<>>
                  /\ Last(slept[c]).why = "limit"
                  /\ Count(slept[c], LAMBDA z : z.why = "limit")
                       = Count(answers[c], LAMBDA x : x.code = E_LIMIT)
                  /\ Count(invoked[c], LAMBDA i : i.why = "retry")
                       = Count(answers[c],
                               LAMBDA x : x.code \in {E_LIMIT, E_SESSION})
                  /\ \E i \in DOMAIN invoked[c] :
                       /\ invoked[c][i].why = "retry"
                       /\ invoked[c][i].ctx = a.ctx
                       /\ ReplaceCSV(invoked[c][i].request) = a.data.request
                       /\ \A j \in DOMAIN invoked[c] :
                            invoked[c][j].why = "retry" => j <= i

\* A waiting client slept after 1002 and has sent the action again.
C3_Witness ==
  \E c \in callers :
    /\ wait_on_limit
    /\ answers[c] # <<>> /\ Last(answers[c]).code = E_LIMIT
    /\ Last(answers[c]).time = 7260
    /\ Len(sent[c]) = 2 /\ sent[c][2].data = sent[c][1].data
    /\ stack[c] # <<>>

\* C4: a transport failure of the POST inside one query is followed by
\* exactly one more attempt with the same payload; no query makes a third
\* attempt, and a failure of the second attempt reaches the caller.
C4_OneTransportRetry ==
  \A c \in callers :
    /\ \A i \in DOMAIN sent[c] :
         /\ sent[c][i].attempt \in {1, 2}
         /\ sent[c][i].attempt = 2 =>
              /\ i > 1
              /\ sent[c][i - 1].attempt = 1
              /\ sent[c][i - 1].data = sent[c][i].data
              /\ answers[c] # <<>>
    /\ \A i \in DOMAIN stack[c] : stack[c][i].attempt \in {1, 2}
    /\ (answers[c] # <<>> /\ Last(answers[c]).code = -1) =>
         IF Last(answers[c]).attempt = 1
         THEN /\ stack[c] # <<>>
              /\ Last(stack[c]).attempt = 2
              /\ Last(sent[c]).attempt = 2
              /\ Last(sent[c]).data = Last(answers[c]).data
         ELSE /\ stack[c] = <<>>
              /\ outcome[c] = Exc("RequestException")

\* The second attempt failed too and the caller got the transport error.
C4_Witness ==
  \E c \in callers :
    /\ Len(answers[c]) = 2
    /\ answers[c][1].code = -1 /\ answers[c][2].code = -1
    /\ answers[c][2].attempt = 2
    /\ outcome[c] = Exc("RequestException")


\* C5 as claimed: with error_retry_delay 0 a transport failure of the first
\* POST reaches the caller and no second POST is made.
C5_ZeroDelayDisablesRetry ==
  \A c \in callers :
    error_retry_delay = 0 =>
      /\ \A i \in DOMAIN sent[c] : sent[c][i].attempt = 1
      /\ (answers[c] # <<>> /\ Last(answers[c]).code = -1) =>
           (stack[c] = <<>> /\ outcome[c] = Exc("RequestException"))

\* C5 as amended: with error_retry_delay 0 only the sleep is left out; a
\* transport failure of the first POST is still followed by one second POST
\* of the same payload, and a failure of that one reaches the caller.  With
\* a delay set, each second POST comes after one sleep of that length.
C5_ZeroDelaySkipsOnlySleep ==
  \A c \in callers :
    /\ Count(slept[c], LAMBDA z : z.why = "error")
         = IF error_retry_delay = 0 THEN 0
           ELSE Count(sent[c], LAMBDA p : p.attempt = 2)
    /\ \A i \in DOMAIN slept[c] :
         slept[c][i].why = "error" => slept[c][i].secs = error_retry_delay
    /\ (error_retry_delay = 0 /\ answers[c] # <<>>
          /\ Last(answers[c]).code = -1) =>
         IF Last(answers[c]).attempt = 1
         THEN /\ stack[c] # <<>>
              /\ Last(stack[c]).attempt = 2
              /\ Last(sent[c]).attempt = 2
              /\ Last(sent[c]).data = Last(answers[c]).data
         ELSE /\ stack[c] = <<>>
              /\ outcome[c] = Exc("RequestException")

\* With error_retry_delay 0 the first POST failed, the second was made
\* without a sleep and its answer gave the caller a result.
C5_Witness ==
  \E c \in callers :
    /\ error_retry_delay = 0
    /\ Len(answers[c]) = 2
    /\ answers[c][1].code = -1 /\ answers[c][2].code = 0
    /\ Len(sent[c]) = 2 /\ sent[c][2].attempt = 2
    /\ slept[c] = <<>>
    /\ outcome[c].kind = "result"

IsAuth(x) == x.ctx = "authenticate"

\* C6: an authentication request is in flight only below a handler that is
\* building a session-bearing payload while no session key is cached; an
\* operation that starts with a cached key and is never answered 1054 sends
\* no authentication request; the authentication request names verifyUser,
\* carries the credentials and no sessionKey, and is never nested.
C6_LazyCachedAuthentication ==
  \A c \in callers :
    /\ Len(stack[c]) <= 2
    /\ (\E i \in DOMAIN stack[c] : IsAuth(stack[c][i])) =>
         /\ ~Truthy(session_key)
         /\ Len(stack[c]) = 2
         /\ IsAuth(stack[c][2])
         /\ ~IsAuth(stack[c][1])
         /\ stack[c][1].pc = "session"
         /\ stack[c][1].data.sessionKey = Absent
         /\ stack[c][1].request # VerifyUser
    /\ (Truthy(cur[c].session_key) /\ Count(answers[c], IsExpired) = 0) =>
         Count(sent[c], IsAuth) = 0
    /\ \A i \in DOMAIN sent[c] :
         IF IsAuth(sent[c][i])
         THEN /\ sent[c][i].data.request = VerifyUser
              /\ sent[c][i].data.sessionKey = Absent
              /\ sent[c][i].data.kw.auth
         ELSE sent[c][i].data.sessionKey # Absent

\* The third call in a row on a client constructed with session_key: each
\* sent its request with the cached key and none authenticated.
C6_Witness ==
  \E c \in callers :
    /\ session_key = "t1"
    /\ cur[c].session_key = "t1"
    /\ ops[c] = 3 /\ posts[c] = 3
    /\ Len(sent[c]) = 1 /\ ~IsAuth(sent[c][1])
    /\ sent[c][1].data.sessionKey = "t1"
    /\ outcome[c].kind = "result"

\* C7: fetchone returns the single buffered record of a result whose total
\* is 1, raises the empty-result error when total is 0 and the
\* too-many-results error when it is greater; it sends nothing and leaves
\* the result's pages as they were.
C7_FetchOne ==
  \A c \in callers :
    cur[c].op = "fetchone" =>
      LET r == cur[c].res
      IN  /\ r.total = 1 =>
               /\ outcome[c].kind = "record"
               /\ \E k \in DOMAIN r.records :
                    /\ Len(r.records[k]) = 1
                    /\ outcome[c].recs = r.records[k]
          /\ r.total = 0 =>
               outcome[c] = Exc("ErplyException: Request returned no results")
          /\ r.total > 1 =>
               outcome[c] =
                 Exc("ErplyException: Request returned more than 1 result")
          /\ sent[c] = <<>>
          /\ res[c] = r

\* The errors a query or the authentication raises.
QueryErrors ==
  { "RequestException", "ErplyException: Request failed",
    "ErplyException: Malformed response", "ErplyAPILimitException",
    "ErplyPermissionException", "ErplyException: Erply error, field",
    "ErplyException: Erply error",
    "ErplyException: Request returned no results",
    "ErplyException: Request returned more than 1 result" }

\* C8: indexed access to page k of the result of a read action raises the
\* out-of-range error when per_page * k >= total, sending nothing and
\* leaving the pages as they were; otherwise, unless the fetch of the page
\* fails with an error of the query, it returns the records of page k.
C8_IndexedAccess ==
  \A c \in callers :
    (cur[c].op = "getitem" /\ cur[c].res.request \in ERPLY_GET) =>
      LET r == cur[c].res
          k == cur[c].key
      IN  IF r.per_page * k >= r.total
          THEN /\ outcome[c] = Exc("IndexError")
               /\ stack[c] = <<>>
               /\ sent[c] = <<>>
               /\ res[c] = r
          ELSE stack[c] = <<>> =>
                 \/ /\ outcome[c].kind = "page"
                    /\ IntKey(k) \in DOMAIN res[c].records
                    /\ outcome[c].recs = res[c].records[IntKey(k)]
                 \/ /\ outcome[c].kind = "exc"
                    /\ outcome[c].exc \in QueryErrors

\* The payloads of bulk submissions: posted, or waiting for the session.
BulkPayloads(c) ==
  { sent[c][i].data.requests : i \in {j \in DOMAIN sent[c] : sent[c][j].op = "bulk"} }
  \cup { stack[c][i].data.requests : i \in {j \in DOMAIN stack[c] : stack[c][j].op = "bulk"} }

\* C9: submitting a builder that holds N accepted calls makes N fragments
\* whose requestID are 1..N in the order of attachment, each naming the
\* action attached at its place, at every submission of the builder.
C9_BulkCorrelationIds ==
  \A c \in callers :
    cur[c].op = "submit" =>
      LET fr == cur[c].requests
      IN  /\ Len(fr) = Len(cur[c].calls)
          /\ \A n \in DOMAIN fr :
               /\ fr[n].kw.requestID = n
               /\ fr[n].requestName = cur[c].calls[n].name
               /\ fr[n].request = <<>>
               /\ fr[n].kw.recordsOnPage = cur[c].calls[n].kwargs.recordsOnPage
          /\ \A sub \in BulkPayloads(c) : sub = fr

\* The second submission of a builder with two calls has been posted.
C9_Witness ==
  \E c \in callers :
    /\ cur[c].op = "submit"
    /\ ops[c] = 2
    /\ Len(calls) = 2
    /\ calls[1].name # calls[2].name
    /\ \E i \in DOMAIN sent[c] :
         sent[c][i].op = "bulk" /\ Len(sent[c][i].data.requests) = 2

\* C10: the records of a bulk result are the record payloads of the entries
\* whose responseStatus is not 'error', in the order of the response; a
\* failed entry gives a notice, raises nothing and does not end the stream.
C10_BulkRecordsStream ==
  \A c \in callers :
    (cur[c].op = "records" /\ bulkres.hasRequests) =>
      LET good == SelectSeq(bulkres.requests,
                            LAMBDA e : e.responseStatus # "error")
          bad == SelectSeq(bulkres.requests,
                           LAMBDA e : e.responseStatus = "error")
      IN  /\ outcome[c].kind = "stream"
          /\ outcome[c].stream = [i \in DOMAIN good |-> good[i].records]
          /\ outcome[c].notices =
               [i \in DOMAIN bad |-> [requestID |-> bad[i].requestID,
                                      errorField |-> bad[i].errorField]]

\* The stream of a response whose first entry failed and whose second
\* succeeded holds the second entry's records.
C10_Witness ==
  \E c \in callers :
    /\ cur[c].op = "records"
    /\ Len(bulkres.requests) = 2
    /\ bulkres.requests[1].responseStatus = "error"
    /\ bulkres.requests[2].responseStatus = "ok"
    /\ outcome[c].stream = <<bulkres.requests[2].records>>
    /\ Len(outcome[c].notices) = 1

IsBulkPost(p) == p.op = "bulk"

\* C11 as claimed: the payload of a bulk submission has no sessionKey field
\* and submitting never calls authenticate.
C11_BulkPayloadWithoutSession ==
  \A c \in callers :
    cur[c].op = "submit" =>
      /\ \A i \in DOMAIN sent[c] :
           IsBulkPost(sent[c][i]) => sent[c][i].data.sessionKey = Absent
      /\ \A i \in DOMAIN invoked[c] : ~IsAuth(invoked[c][i])

\* C11 as amended: the payload of a bulk submission is the call list in the
\* envelope of every authenticated request, the account code and the
\* sessionKey; with a key cached the submission sends that key and does not
\* authenticate, without one it authenticates first and sends the key the
\* authentication returned.
C11_BulkPayloadCarriesSession ==
  \A c \in callers :
    cur[c].op = "submit" =>
      /\ \A i \in DOMAIN sent[c] :
           IsBulkPost(sent[c][i]) =>
             /\ sent[c][i].data.clientCode
             /\ sent[c][i].data.sessionKey # Absent
             /\ sent[c][i].data.sessionKey = session_key
             /\ sent[c][i].data.requests = cur[c].requests
             /\ i = Len(sent[c])
      /\ IF Truthy(cur[c].session_key)
         THEN /\ \A i \in DOMAIN invoked[c] : ~IsAuth(invoked[c][i])
              /\ Len(sent[c]) = 1
              /\ IsBulkPost(sent[c][1])
              /\ sent[c][1].data.sessionKey = cur[c].session_key
         ELSE /\ \E i \in DOMAIN invoked[c] : IsAuth(invoked[c][i])
              /\ \A i \in DOMAIN sent[c] :
                   IsBulkPost(sent[c][i]) =>
                     /\ i > 1
                     /\ IsAuth(sent[c][i - 1])

\* A client without a cached key authenticated for a submission of one call
\* and posted the call list with the key it got.
C11_Witness ==
  \E c \in callers :
    /\ cur[c].op = "submit"
    /\ cur[c].session_key = None
    /\ Len(cur[c].requests) = 1
    /\ Len(sent[c]) = 2
    /\ IsAuth(sent[c][1])
    /\ IsBulkPost(sent[c][2])
    /\ sent[c][2].data.sessionKey = "t2"

\* C12: attaching a known read or write action appends one entry, holding
\* the bulk variant of the action and the arguments, at the end of the
\* pending calls; attaching any other name leaves the calls as they were;
\* either way nothing is raised and nothing is sent.
C12_AttachFrame ==
  \A c \in callers :
    cur[c].op = "attach" =>
      /\ outcome[c] = NoOutcome
      /\ stack[c] = <<>>
      /\ sent[c] = <<>>
      /\ session_key = cur[c].session_key
      /\ IF cur[c].name \in ERPLY_GET \cup ERPLY_POST
         THEN /\ Len(calls) = Len(cur[c].calls) + 1
              /\ SubSeq(calls, 1, Len(cur[c].calls)) = cur[c].calls
              /\ Last(calls) =
                   [call |-> [attr |-> cur[c].name, bulk |-> TRUE],
                    args |-> <<>>, kwargs |-> cur[c].kw, name |-> cur[c].name]
         ELSE calls = cur[c].calls

\* A CSV action was attached to a builder that holds one call, and the
\* builder still holds that one call.
C12_Witness ==
  \E c \in callers :
    /\ cur[c].op = "attach"
    /\ cur[c].name \in ERPLY_CSV
    /\ Len(cur[c].calls) = 1
    /\ calls = cur[c].calls
    /\ outcome[c] = NoOutcome

\* C13: whatever was done on the client before, calling a read or write
\* action by its plain name runs the sending variant of its handler: the
\* call and each retry of it send a request or raise, the call gives back
\* no payload fragment, and a retry inside a page fetch does the same.
C13_DispatchByNameOnly ==
  \A c \in callers :
    /\ (cur[c].op = "invoke" /\ cur[c].name \in ERPLY_GET \cup ERPLY_POST) =>
         /\ outcome[c].kind # "fragment"
         /\ \A i \in DOMAIN invoked[c] : ~invoked[c][i].bulk
         /\ stack[c] = <<>> => outcome[c].kind \in {"result", "exc"}
    /\ cur[c].op = "getitem" =>
         \A i \in DOMAIN invoked[c] : ~invoked[c][i].bulk

\* C14: the result a write action gives back has page 0 and holds its
\* records under page 0 and no other, also when the call was re-invoked.
C14_WriteResultPageZero ==
  \A c \in callers :
    (cur[c].op = "invoke" /\ cur[c].name \in ERPLY_POST
       /\ outcome[c].kind = "result") =>
      /\ outcome[c].result.page = IntKey(0)
      /\ DOMAIN outcome[c].result.records = {IntKey(0)}
      /\ res[c] = outcome[c].result

\* C15: a 1054 answer to a request that carried a session key is followed
\* at once by an authentication request, and the first request after the
\* authentication is the answered one again, with the session key that the
\* authentication's answer held in place of the old one.
C15_OrderAfterExpiry ==
  \A c \in callers :
    cur[c].op \in {"invoke", "getitem"} =>
      \A i \in DOMAIN answers[c] :
        (IsExpired(answers[c][i]) /\ ~IsAuth(answers[c][i])) =>
          /\ sent[c][i].data = answers[c][i].data
          /\ sent[c][i].data.sessionKey # Absent
          /\ Len(sent[c]) > i
          /\ IsAuth(sent[c][i + 1])
          /\ \A j \in DOMAIN sent[c] :
               (j > i + 1 /\ ~IsAuth(sent[c][j])
                  /\ \A k \in (i + 1) .. (j - 1) : IsAuth(sent[c][k])) =>
                 /\ IsAuth(answers[c][j - 1])
                 /\ answers[c][j - 1].code = 0
                 /\ sent[c][j].data =
                      [sent[c][i].data EXCEPT !.sessionKey = answers[c][j - 1].key]

\* The step gave caller c the answer to its request.
Answered(c) == Len(answers'[c]) = Len(answers[c]) + 1

\* The error a fatal answer raises.
FatalErrors(a) ==
  CASE a.code = -2 -> {"ErplyException: Request failed"}
    [] a.code = -3 -> {"ErplyException: Malformed response"}
    [] a.code = E_PERMISSION -> {"ErplyPermissionException"}
    [] a.code = E_LIMIT -> {"ErplyAPILimitException"}
    [] OTHER -> {"ErplyException: Erply error",
                 "ErplyException: Erply error, field"}

IsFatal(a) ==
  /\ a.code \notin {-1, 0, E_SESSION}
  /\ a.code = E_LIMIT => ~wait_on_limit

\* C16: a failed HTTP status, a body without status, 1060, any other error
\* code and 1002 without wait_on_limit raise their error to the caller with
\* no re-invocation and no further request; and the cached session key
\* changes in no step but the handling of a 1054 answer, which clears it,
\* and the end of a successful authentication, which sets it to the key of
\* the answer.
C16_ErrorsRaiseAndTokenFrame ==
  [][ /\ session_key' # session_key =>
           \E c \in callers :
             /\ Answered(c)
             /\ LET a == Last(answers'[c])
                IN  \/ IsExpired(a) /\ session_key' = None
                    \/ /\ a.code = 0 /\ IsAuth(a) /\ a.total = 1
                       /\ session_key' = a.key
      /\ \A c \in callers :
           Answered(c) =>
             LET a == Last(answers'[c])
             IN  /\ IsExpired(a) => session_key' = None
                 /\ a.code \in {-1, E_LIMIT} => session_key' = session_key
                 /\ IsFatal(a) =>
                      /\ stack'[c] = <<>>
                      /\ outcome'[c].kind = "exc"
                      /\ outcome'[c].exc \in FatalErrors(a)
                      /\ invoked'[c] = invoked[c]
                      /\ sent'[c] = sent[c]
                      /\ slept'[c] = slept[c]
                      /\ session_key' = session_key
                      /\ res'[c] = res[c]
    ]_vars

\* A call of a client that had authenticated was refused with 1060: the
\* caller got the permission error and the key is still cached.
C16_Witness ==
  \E c \in callers :
    /\ answers[c] # <<>>
    /\ Last(answers[c]).code = E_PERMISSION
    /\ Last(answers[c]).data.sessionKey = "t2"
    /\ outcome[c] = Exc("ErplyPermissionException")
    /\ session_key = "t2"

IsFetch(x) == x.ctx = "getitem"

\* C17: through an indexed access to the result of a read action, total,
\* the action and its arguments stay, the pages held before stay as they
\* were and at most page k is added; a page that is held is returned
\* without a request; for a page in range that is not held every fetch
\* request names the action with its arguments and pageNo k + 1, one is
\* sent (and one more after each answer that makes the handler retry), and
\* the records of the successful answer are kept under k and returned.
C17_PagingInvariants ==
  \A c \in callers :
    (cur[c].op = "getitem" /\ cur[c].res.request \in ERPLY_GET) =>
      LET r0 == cur[c].res
          k == cur[c].key
      IN  /\ res[c].total = r0.total
          /\ res[c].request = r0.request
          /\ res[c].kwargs = r0.kwargs
          /\ res[c].per_page = r0.per_page
          /\ DOMAIN r0.records \subseteq DOMAIN res[c].records
          /\ \A p \in DOMAIN r0.records : res[c].records[p] = r0.records[p]
          /\ DOMAIN res[c].records \subseteq DOMAIN r0.records \cup {IntKey(k)}
          /\ (IntKey(k) \in DOMAIN r0.records /\ r0.per_page * k < r0.total) =>
               /\ sent[c] = <<>>
               /\ stack[c] = <<>>
               /\ outcome[c] = PageOf(r0.records[IntKey(k)])
               /\ res[c] = r0
          /\ (IntKey(k) \notin DOMAIN r0.records /\ r0.per_page * k < r0.total) =>
               /\ \A i \in DOMAIN sent[c] :
                    IsFetch(sent[c][i]) =>
                      /\ sent[c][i].data.request = r0.request
                      /\ sent[c][i].data.kw = r0.kwargs
                      /\ sent[c][i].data.pageNo = k + 1
                      /\ sent[c][i].data.sessionKey # Absent
               /\ Truthy(cur[c].session_key) =>
                    (sent[c] # <<>> /\ IsFetch(sent[c][1]))
               /\ Count(sent[c], LAMBDA x : IsFetch(x) /\ x.attempt = 1)
                    <= 1 + Count(answers[c],
                                 LAMBDA a : IsFetch(a)
                                            /\ a.code \in {E_SESSION, E_LIMIT})
               /\ IntKey(k) \in DOMAIN res[c].records =>
                    \E i \in DOMAIN answers[c] :
                      /\ IsFetch(answers[c][i])
                      /\ answers[c][i].code = 0
                      /\ i = Len(answers[c])
                      /\ Len(res[c].records[IntKey(k)])
                           = Min(r0.per_page,
                                 IF answers[c][i].total > k * r0.per_page
                                 THEN answers[c][i].total - k * r0.per_page
                                 ELSE 0)
                      /\ \A n \in DOMAIN res[c].records[IntKey(k)] :
                           res[c].records[IntKey(k)][n].id
                             = k * r0.per_page + n
               /\ outcome[c].kind = "page" =>
                    /\ IntKey(k) \in DOMAIN res[c].records
                    /\ outcome[c].recs = res[c].records[IntKey(k)]

\* The second indexed access of a result with one record a page: page 1 was
\* fetched before, page 2 has been fetched now, and the result holds pages
\* 0, 1 and 2.
C17_Witness ==
  \E c \in callers :
    /\ cur[c].op = "getitem"
    /\ cur[c].key = 2
    /\ cur[c].res.request \in ERPLY_GET
    /\ DOMAIN cur[c].res.records = {IntKey(0), IntKey(1)}
    /\ outcome[c].kind = "page"
    /\ Len(outcome[c].recs) = 1
    /\ outcome[c].recs[1].id = 3
    /\ DOMAIN res[c].records = {IntKey(0), IntKey(1), IntKey(2)}

IsRetryable(a) == IsExpired(a) \/ (a.code = E_LIMIT /\ wait_on_limit)

\* C18: a call goes on after every answer that is 1054, or 1002 with
\* wait_on_limit on, however many it has been given, each such answer
\* making one re-invocation; and it has ended, with a result or an error,
\* after any other answer to the action.
C18_RetriesWithoutBound ==
  \A c \in callers :
    (cur[c].op = "invoke" /\ answers[c] # <<>>) =>
      LET a == Last(answers[c])
      IN  IF IsRetryable(a)
          THEN /\ stack[c] # <<>>
               /\ outcome[c].kind = "none"
               /\ Count(invoked[c], LAMBDA i : i.why = "retry")
                    = Count(answers[c], IsRetryable)
          ELSE ~IsAuth(a) => stack[c] = <<>>

\* C19: the sleep of a client that waits on a 1002 answer lasts
\* 60 * (60 - minute) + 1 seconds, minute being the minute of the answer's
\* server time; for every minute and second that is between 61 and 3601
\* seconds, and the server time plus the sleep is later than the start of
\* the next hour by no more than 60 seconds.
C19_SleepUntilNextHour ==
  \A c \in callers :
    \A i \in DOMAIN slept[c] :
      slept[c][i].why = "limit" =>
        LET t == answers[c][i].time
            secs == slept[c][i].secs
            minute == (t \div 60) % 60
            NextHour == ((t \div 3600) + 1) * 3600
        IN  /\ answers[c][i].code = E_LIMIT
            /\ secs = (60 * (60 - minute)) + 1
            /\ secs >= 61
            /\ secs <= 3601
            /\ t + secs > NextHour
            /\ t + secs <= NextHour + 60

\* The answer came at 23:00:59: the client slept 3601 seconds, which ends
\* 60 seconds into the next hour, and has sent the request again.
C19_Witness ==
  \E c \in callers :
    /\ Len(slept[c]) = 1
    /\ slept[c][1] = [why |-> "limit", secs |-> 3601]
    /\ answers[c][1].time = (23 * 3600) + 59
    /\ Len(sent[c]) = 2
    /\ stack[c] # <<>>

\* C20: nothing guards the session key of a client that callers share: a
\* caller that is answered 1054 clears the cached key whichever key that is
\* and whatever the other callers are doing, and sends an authentication
\* request of its own whether or not another caller's is on its way.
C20_NoGuardOnSessionToken ==
  [][ \A c \in callers :
        (Answered(c) /\ IsExpired(Last(answers'[c]))) =>
          /\ session_key' = None
          /\ Len(sent'[c]) = Len(sent[c]) + 1
          /\ IsAuth(Last(sent'[c]))
          /\ Last(sent'[c]).data.sessionKey = Absent
    ]_vars

\* Both callers sent the action with the key t1.  The first was answered
\* 1054, authenticated, got t2 and is waiting for the answer to the action
\* it sent again with t2; then the second was answered 1054 for t1: it
\* cleared the key t2 and has sent an authentication request of its own.
C20_Witness ==
  \E c, d \in callers :
    /\ c # d
    /\ session_key = None
    /\ stack[c] # <<>>
    /\ ~IsAuth(Last(stack[c]))
    /\ Last(stack[c]).pc = "post"
    /\ Last(stack[c]).data.sessionKey = "t2"
    /\ IsExpired(answers[c][1])
    /\ answers[c][1].data.sessionKey = "t1"
    /\ \E i \in DOMAIN sent[c] : IsAuth(sent[c][i])
    /\ Len(answers[d]) = 1
    /\ IsExpired(answers[d][1])
    /\ answers[d][1].data.sessionKey = "t1"
    /\ stack[d] # <<>>
    /\ IsAuth(Last(sent[d]))

====
